---------------------------- MODULE Spec2Model ----------------------------
(***************************************************************************)
(* Model of package core (core/core.go): the three exported operations     *)
(* GetPublicCompaniesWithHeaders / GetPublicCompanies, GetFilerWithHeaders *)
(* and GetFilings.  One behaviour of the model is one call of one of the   *)
(* operations; the remote sites (IEX, SEC) are the environment.            *)
(***************************************************************************)
EXTENDS Integers, Sequences, FiniteSets, TLC

\* Largest number of sub-directory links on a filer's directory page.
MaxUrls == 3

VARIABLES
    op,               \* which exported function is being called
    pc,               \* position inside the call
    err,              \* the returned error: <<>> is nil, <<msg>> otherwise
    requests,         \* every HTTP request / getPage call issued so far, in order
    \* ---- GetFilings
    cik,              \* argument cik
    formtype,         \* argument formtype
    stoptime,         \* argument stoptime, a string as a sequence of characters
    site,             \* the SEC archive as seen through getPage/buildFiling
    stop,             \* local stop *time.Time: <<>> is nil, <<t>> otherwise
    urls,             \* local urls
    u,                \* index into urls of the current loop iteration
    filings,          \* named result filings
    extracted,        \* sub-directories findIdxURL has been applied to
    built,            \* sub-directories buildFiling has been called for
    \* ---- GetPublicCompaniesWithHeaders / GetFilerWithHeaders
    queryParameters,  \* argument queryParameters, a map as a set of <<key, value>>
    headers,          \* argument headers, a map as a set of <<key, value>>
    result,           \* returned []Company: <<>> is nil or empty
    symbol,           \* argument symbol
    feed,             \* local feed, the decoded rssFeed.Info
    filer             \* returned *model.Filer: <<>> is nil, <<f>> otherwise

vars == <<op, pc, err, requests, cik, formtype, stoptime, site, stop, urls, u,
          filings, extracted, built, queryParameters, headers, result,
          symbol, feed, filer>>

filingsVars == <<cik, formtype, stoptime, site, stop, urls, u, filings, extracted,
                 built>>
clientVars  == <<queryParameters, headers, result, symbol, feed, filer>>

Nil == <<>>

-----------------------------------------------------------------------------
(* Calendar arithmetic of package time, as far as the layout "2006-01-02"   *)
(* needs it.  A time.Time is modelled by its absolute day number (UTC).     *)

Digits == {"0", "1", "2", "3", "4", "5", "6", "7", "8", "9"}

DigitVal(c) ==
    CASE c = "0" -> 0 [] c = "1" -> 1 [] c = "2" -> 2 [] c = "3" -> 3
      [] c = "4" -> 4 [] c = "5" -> 5 [] c = "6" -> 6 [] c = "7" -> 7
      [] c = "8" -> 8 [] c = "9" -> 9

IsLeap(y) == (y % 4 = 0 /\ y % 100 # 0) \/ y % 400 = 0

DaysIn(m, y) ==
    IF m = 2 THEN (IF IsLeap(y) THEN 29 ELSE 28)
    ELSE IF m \in {4, 6, 9, 11} THEN 30 ELSE 31

RECURSIVE DaysBeforeMonth(_, _)
DaysBeforeMonth(m, y) ==
    IF m <= 1 THEN 0 ELSE DaysBeforeMonth(m - 1, y) + DaysIn(m - 1, y)

\* time.Date(y, m, d, 0, 0, 0, 0, time.UTC) as a day number.
Date(y, m, d) ==
    365 * y + (y + 3) \div 4 - (y + 99) \div 100 + (y + 399) \div 400
        + DaysBeforeMonth(m, y) + (d - 1)

\* t.Before(s)
BeforeOrEqual(t, s) == t <= s
Before(t, s) == t < s

\* time.Parse("2006-01-02", s): [ok |-> TRUE, t |-> day] or [ok |-> FALSE].
\* The layout takes exactly four digits, "-", two digits, "-", two digits and
\* nothing else; month and day are range-checked (day against the month).
ParseLenient(s) ==
    IF /\ Len(s) = 10
       /\ \A p \in {1, 2, 3, 4, 6, 7, 9, 10} : s[p] \in Digits
       /\ s[5] = "-" /\ s[8] = "-"
    THEN LET y == 1000 * DigitVal(s[1]) + 100 * DigitVal(s[2])
                    + 10 * DigitVal(s[3]) + DigitVal(s[4])
             m == 10 * DigitVal(s[6]) + DigitVal(s[7])
             d == 10 * DigitVal(s[9]) + DigitVal(s[10])
         IN  IF m \in 1..12 /\ d \in 1..31
             THEN [ok |-> TRUE, t |-> Date(y, m, d)]
             ELSE [ok |-> FALSE, t |-> 0]
    ELSE [ok |-> FALSE, t |-> 0]

Parse(s) ==
    IF /\ Len(s) = 10
       /\ \A p \in {1, 2, 3, 4, 6, 7, 9, 10} : s[p] \in Digits
       /\ s[5] = "-" /\ s[8] = "-"
    THEN LET y == 1000 * DigitVal(s[1]) + 100 * DigitVal(s[2])
                    + 10 * DigitVal(s[3]) + DigitVal(s[4])
             m == 10 * DigitVal(s[6]) + DigitVal(s[7])
             d == 10 * DigitVal(s[9]) + DigitVal(s[10])
         IN  IF m \in 1..12 /\ d \in 1..DaysIn(m, y)
             THEN [ok |-> TRUE, t |-> Date(y, m, d)]
             ELSE [ok |-> FALSE, t |-> 0]
    ELSE [ok |-> FALSE, t |-> 0]

-----------------------------------------------------------------------------
(* The inputs and the environment of GetFilings.                            *)

FormTypes == {"10-K", "8-K"}
FormTypeArgs == {""} \cup {"10-K"}

\* stoptime arguments: none, two dates, a day out of range, a wrong layout.
StopTimes ==
    { <<>>,
      <<"2", "0", "2", "3", "-", "0", "2", "-", "0", "1">>,
      <<"2", "0", "2", "3", "-", "0", "3", "-", "0", "1">>,
      <<"2", "0", "2", "3", "-", "0", "2", "-", "2", "9">>,
      <<"2", "0", "2", "3", "-", "2", "-", "1">> }

EdgarTimes == {Date(2023, 1, 1), Date(2023, 2, 1), Date(2023, 3, 1)}

Symbols == {"AAPL", "MSFT"}

Ciks == {"0000320193", "0000789019"}

\* The ticker symbol buildFiling gives the filings of the filer with CIK c:
\* the symbol under query.
SymbolOf(c) == IF c = "0000320193" THEN "AAPL" ELSE "MSFT"

\* What the archive holds for one sub-directory link: whether getPage of it
\* fails, whether its page has an index link, whether buildFiling fails, and
\* the form type and timestamp of the filing buildFiling returns.
FailedEntries ==
    { [getErr |-> g, idx |-> i, buildErr |-> b, FormType |-> "", EdgarTime |-> 0] :
        <<g, i, b>> \in { <<TRUE, FALSE, FALSE>>, <<FALSE, FALSE, FALSE>>,
                          <<FALSE, TRUE, TRUE>> } }

GoodEntries ==
    { [getErr |-> FALSE, idx |-> TRUE, buildErr |-> FALSE, FormType |-> f, EdgarTime |-> t] :
        f \in FormTypes, t \in EdgarTimes }

Entries == FailedEntries \cup GoodEntries

Directories == UNION { [1..n -> Entries] : n \in 0..MaxUrls }

\* The archive: either the directory page of the filer cannot be fetched, or
\* it lists the sub-directories of dir, in page order.
Sites ==
    { [dirErr |-> TRUE, dir |-> <<>>] }
        \cup { [dirErr |-> FALSE, dir |-> d] : d \in Directories }


-----------------------------------------------------------------------------
(* GetFilings                                                               *)

\* findListURLs(dirPage): the sub-directory links of the page, in page order.
\* Link k of the page is named by its position k.
findListURLs(dirPage) == [k \in 1..Len(dirPage) |-> k]

\* filing, buildErr := buildFiling(cik, idxURL), for the index page of
\* sub-directory k, which holds e.
buildFiling(c, k, e) ==
    [url |-> k, CIK |-> c, FormType |-> e.FormType, EdgarTime |-> e.EdgarTime,
     Symbol |-> SymbolOf(c), AllSymbols |-> <<>>]

\* if formtype != "" { if filing.Filing.FormType != formtype { continue } }
FormTypeSkipNever(filing, ft) == FALSE
FormTypeSkip(filing, ft) == ft # "" /\ filing.FormType # ft

\* if stop != nil { if filing.Filing.EdgarTime.Before(*stop) { return } }
CutoffNever(filing, st) == FALSE
CutoffReached(filing, st) == st # Nil /\ Before(filing.EdgarTime, st[1])

\* The two filters of the loop body, in the order of the code.
FilterCutoffFirst(filing, ft, st) ==
    IF CutoffReached(filing, st) THEN "return"
    ELSE IF FormTypeSkip(filing, ft) THEN "skip"
    ELSE "append"
Filter(filing, ft, st) ==
    IF FormTypeSkip(filing, ft) THEN "skip"
    ELSE IF CutoffReached(filing, st) THEN "return"
    ELSE "append"

\* What one iteration of the loop does with sub-directory entry e, filing
\* being what buildFiling returns for it: "getErr", "noIdx", "buildErr" and
\* "skip" all continue with the next url, "return" leaves the function,
\* "append" appends the filing.
OutcomeAbortOnFailure(e, filing, ft, st) ==
    IF e.getErr \/ ~e.idx \/ e.buildErr THEN "return"
    ELSE Filter(filing, ft, st)
OutcomeAppendUnbuilt(e, filing, ft, st) ==
    IF e.getErr THEN "getErr"
    ELSE IF ~e.idx THEN "noIdx"
    ELSE IF e.buildErr THEN "append"
    ELSE Filter(filing, ft, st)
Outcome(e, filing, ft, st) ==
    IF e.getErr THEN "getErr"
    ELSE IF ~e.idx THEN "noIdx"
    ELSE IF e.buildErr THEN "buildErr"
    ELSE Filter(filing, ft, st)

\* filing.Filing.AllSymbols = []string{filing.Filing.Symbol}
StampNothing(filing) == filing
Stamp(filing) == [filing EXCEPT !.AllSymbols = <<filing.Symbol>>]

\* The getPage call of the filer's directory page fails.
DirFetchIgnored(s) == FALSE
DirFetchFailed(s) == s.dirErr

InitFilings ==
    /\ op = "GetFilings"
    /\ pc = "parse"
    /\ err = Nil
    /\ requests = <<>>
    /\ cik \in Ciks
    /\ formtype \in FormTypeArgs
    /\ stoptime \in StopTimes
    /\ site \in Sites
    /\ stop = Nil
    /\ urls = <<>>
    /\ u = 1
    /\ filings = <<>>
    /\ extracted = <<>>
    /\ built = <<>>
    /\ queryParameters = {} /\ headers = {} /\ result = <<>>
    /\ symbol = "" /\ feed = Nil /\ filer = Nil

\* var stop *time.Time; if stoptime != "" { t, err := time.Parse(...) ... }
ParseStop ==
    /\ op = "GetFilings" /\ pc = "parse"
    /\ IF stoptime # <<>>
       THEN LET p == Parse(stoptime)
            IN  IF ~p.ok
                THEN /\ err' = <<"parse">>
                     /\ pc' = "done"
                     /\ stop' = stop
                ELSE /\ stop' = <<p.t>>
                     /\ pc' = "fetch"
                     /\ err' = err
       ELSE /\ pc' = "fetch"
            /\ UNCHANGED <<stop, err>>
    /\ UNCHANGED <<op, requests, cik, formtype, stoptime, site, urls, u, filings,
                   extracted, built>>
    /\ UNCHANGED clientVars

\* dirPage, err := getPage(".../edgar/data/"+cik, 2); urls := findListURLs(dirPage)
\* The directory page request is logged as request 0.
FetchDir ==
    /\ op = "GetFilings" /\ pc = "fetch"
    /\ requests' = Append(requests, 0)
    /\ IF DirFetchFailed(site)
       THEN /\ err' = <<"getPage">>
            /\ pc' = "done"
            /\ urls' = urls
       ELSE /\ urls' = findListURLs(site.dir)
            /\ pc' = "loop"
            /\ err' = err
    /\ UNCHANGED <<op, cik, formtype, stoptime, site, stop, u, filings, extracted,
                   built>>
    /\ UNCHANGED clientVars

\* One iteration of  for _, u := range urls { ... }.
Iterate ==
    /\ op = "GetFilings" /\ pc = "loop" /\ u <= Len(urls)
    /\ LET k == urls[u]
           e == site.dir[k]
           filing == buildFiling(cik, k, e)
           o == Outcome(e, filing, formtype, stop)
       IN  /\ requests' = Append(requests, k)
           /\ extracted' = IF o = "getErr" THEN extracted ELSE Append(extracted, k)
           /\ built' = IF o \in {"getErr", "noIdx"} THEN built ELSE Append(built, k)
           /\ filings' = IF o = "append" THEN Append(filings, Stamp(filing)) ELSE filings
           /\ pc' = IF o = "return" THEN "done" ELSE "loop"
           /\ u' = IF o = "return" THEN u ELSE u + 1
    /\ UNCHANGED <<op, err, cik, formtype, stoptime, site, stop, urls>>
    /\ UNCHANGED clientVars

\* The final return after the loop has run through urls.
Return ==
    /\ op = "GetFilings" /\ pc = "loop" /\ u > Len(urls)
    /\ pc' = "done"
    /\ UNCHANGED <<op, err, requests>>
    /\ UNCHANGED filingsVars
    /\ UNCHANGED clientVars

-----------------------------------------------------------------------------
(* Maps, and the arguments of the two HTTP clients.                         *)

\* m[k] of a Go map[string]string: the zero value "" when k is not a key.
Lookup(m, k) == IF \E p \in m : p[1] = k THEN (CHOOSE p \in m : p[1] = k)[2] ELSE ""

QueryMaps ==
    { t \cup f : t \in { {}, {<<"token", "">>}, {<<"token", "pk_1">>} },
                 f \in { {}, {<<"format", "json">>} } }

HeaderMaps == { {}, {<<"User-Agent", "edgr">>} }

\* The keys of QueryMaps in the order url.Values.Encode writes them (sorted).
SortedKeys == <<"format", "token">>

\* parameters.Encode(): the key=value pairs of the map, sorted by key.
Encode(m) ==
    LET present == SelectSeq(SortedKeys, LAMBDA k : \E p \in m : p[1] = k)
    IN  [n \in 1..Len(present) |-> <<present[n], Lookup(m, present[n])>>]

-----------------------------------------------------------------------------
(* GetPublicCompanies, GetPublicCompaniesWithHeaders                        *)

\* JSON objects of the symbols endpoint, with the keys the model follows.
JsonObjects ==
    { [symbol |-> "AAPL"], [symbol |-> "AAPL", isEnabled |-> TRUE], [isEnabled |-> TRUE] }

JsonArrays == UNION { [1..n -> JsonObjects] : n \in 0..2 }

\* What client.Do, io.ReadAll and the body can be.
IexResponses ==
    { [kind |-> "doErr", body |-> <<>>], [kind |-> "readErr", body |-> <<>>],
      [kind |-> "notJson", body |-> <<>>] }
        \cup { [kind |-> "json", body |-> a] : a \in JsonArrays }

\* json.Unmarshal of one object into a Company: absent keys leave zero values.
DecodeCompany(o) ==
    [Symbol    |-> IF "symbol" \in DOMAIN o THEN o.symbol ELSE "",
     IsEnabled |-> IF "isEnabled" \in DOMAIN o THEN o.isEnabled ELSE FALSE]

\* if queryParameters["token"] == "" { return nil, fmt.Errorf(...) }
TokenKeyAbsent(q) == ~ \E p \in q : p[1] = "token"
TokenMissing(q) == Lookup(q, "token") = ""

\* The body of GetPublicCompaniesWithHeaders(q, h) when the site answers r:
\* the returned companies and error, and the requests it issues.
CompaniesCall(q, h, r) ==
    IF TokenMissing(q)
    THEN [result |-> <<>>, err |-> <<"token">>, requests |-> <<>>]
    ELSE LET req == [url |-> "iexSymbolsURL", query |-> Encode(q), headers |-> h]
         IN  CASE r.kind = "doErr" ->
                    [result |-> <<>>, err |-> <<"do">>, requests |-> <<req>>]
               [] r.kind = "readErr" ->
                    [result |-> <<>>, err |-> <<"read">>, requests |-> <<req>>]
               [] r.kind = "notJson" ->
                    [result |-> <<>>, err |-> <<"unmarshal">>, requests |-> <<req>>]
               [] r.kind = "json" ->
                    [result |-> [n \in 1..Len(r.body) |-> DecodeCompany(r.body[n])],
                     err |-> Nil, requests |-> <<req>>]

InitCompanies ==
    /\ op \in {"GetPublicCompanies", "GetPublicCompaniesWithHeaders"}
    /\ pc = "call"
    /\ err = Nil
    /\ requests = <<>>
    /\ IF op = "GetPublicCompanies"
       THEN queryParameters = {} /\ headers = {}
       ELSE queryParameters \in QueryMaps /\ headers \in HeaderMaps
    /\ result = <<>>
    /\ symbol = "" /\ feed = Nil /\ filer = Nil
    /\ cik = "" /\ formtype = "" /\ stoptime = <<>>
    /\ site = [dirErr |-> TRUE, dir |-> <<>>]
    /\ stop = Nil /\ urls = <<>> /\ u = 1 /\ filings = <<>>
    /\ extracted = <<>> /\ built = <<>>

GetPublicCompaniesWithHeaders ==
    /\ op = "GetPublicCompaniesWithHeaders" /\ pc = "call"
    /\ \E r \in IexResponses :
        LET c == CompaniesCall(queryParameters, headers, r)
        IN  /\ result' = c.result
            /\ err' = c.err
            /\ requests' = requests \o c.requests
    /\ pc' = "done"
    /\ UNCHANGED <<op, queryParameters, headers, symbol, feed, filer>>
    /\ UNCHANGED filingsVars

\* return GetPublicCompaniesWithHeaders(map[string]string{}, map[string]string{})
GetPublicCompanies ==
    /\ op = "GetPublicCompanies" /\ pc = "call"
    /\ \E r \in IexResponses :
        LET c == CompaniesCall({}, {}, r)
        IN  /\ result' = c.result
            /\ err' = c.err
            /\ requests' = requests \o c.requests
    /\ pc' = "done"
    /\ UNCHANGED <<op, queryParameters, headers, symbol, feed, filer>>
    /\ UNCHANGED filingsVars

-----------------------------------------------------------------------------
(* GetFiler, GetFilerWithHeaders                                            *)

\* The <company-info> element of the feed: its child elements and their text.
CompanyInfos ==
    { c \cup n \cup s \cup d :
        c \in { {}, {<<"cik", "">>}, {<<"cik", "0000320193">>} },
        n \in { {}, {<<"conformed-name", "">>}, {<<"conformed-name", "Apple Inc.">>} },
        s \in { {}, {<<"assigned-sic", "3571">>} },
        d \in { {}, {<<"assigned-sic-desc", "ELECTRONIC COMPUTERS">>} } }

\* What client.Do and the response body can be.
SecResponses ==
    { [kind |-> "doErr", info |-> {}], [kind |-> "notXml", info |-> {}] }
        \cup { [kind |-> "xml", info |-> i] : i \in CompanyInfos }

\* decoder.Decode(&feed): the fields of secFilerInfo by their xml tags; an
\* absent element leaves the zero value.
Decode(info) ==
    [CIK     |-> Lookup(info, "cik"),
     SIC     |-> Lookup(info, "assigned-sic"),
     SICDesc |-> Lookup(info, "assigned-sic-desc"),
     Name    |-> Lookup(info, "conformed-name")]

\* The two checks after the decode: the error they return, or nil.
ValidateCIKOnly(f) ==
    IF f.CIK = "" THEN <<"no cik found in response data">> ELSE Nil
ValidateNameFirst(f) ==
    IF f.Name = "" THEN <<"no name found in response data">>
    ELSE IF f.CIK = "" THEN <<"no cik found in response data">>
    ELSE Nil
Validate(f) ==
    IF f.CIK = "" THEN <<"no cik found in response data">>
    ELSE IF f.Name = "" THEN <<"no name found in response data">>
    ELSE Nil

\* &model.Filer{CIK: ..., Symbol: symbol, SIC: ..., SICDescription: ..., Name: ...}
NewFiler(f, sym) ==
    [CIK |-> f.CIK, Symbol |-> sym, SIC |-> f.SIC, SICDescription |-> f.SICDesc,
     Name |-> f.Name]

InitFiler ==
    /\ op = "GetFilerWithHeaders"
    /\ pc = "call"
    /\ err = Nil
    /\ requests = <<>>
    /\ symbol \in Symbols
    /\ headers \in HeaderMaps
    /\ queryParameters = {} /\ result = <<>>
    /\ feed = Nil /\ filer = Nil
    /\ cik = "" /\ formtype = "" /\ stoptime = <<>>
    /\ site = [dirErr |-> TRUE, dir |-> <<>>]
    /\ stop = Nil /\ urls = <<>> /\ u = 1 /\ filings = <<>>
    /\ extracted = <<>> /\ built = <<>>

\* The symbols drawn are plain tickers, for which http.NewRequest succeeds.
GetFilerWithHeaders ==
    /\ op = "GetFilerWithHeaders" /\ pc = "call"
    /\ requests' = Append(requests, [url |-> <<"secCompanyURL", symbol>>,
                                      headers |-> headers])
    /\ \E r \in SecResponses :
        CASE r.kind = "doErr" ->
                /\ err' = <<"do">> /\ feed' = feed /\ filer' = Nil
          [] r.kind = "notXml" ->
                /\ err' = <<"decode">> /\ feed' = feed /\ filer' = Nil
          [] r.kind = "xml" ->
                LET f == Decode(r.info)
                IN  /\ feed' = <<f>>
                    /\ err' = Validate(f)
                    /\ filer' = IF Validate(f) = Nil THEN <<NewFiler(f, symbol)>> ELSE Nil
    /\ pc' = "done"
    /\ UNCHANGED <<op, queryParameters, headers, result, symbol>>
    /\ UNCHANGED filingsVars

-----------------------------------------------------------------------------

Init == InitFilings \/ InitCompanies \/ InitFiler

Next ==
    \/ ParseStop
    \/ FetchDir
    \/ Iterate
    \/ Return
    \/ GetPublicCompaniesWithHeaders
    \/ GetPublicCompanies
    \/ GetFilerWithHeaders

Spec == Init /\ [][Next]_vars

TypeOK ==
    /\ op \in {"GetFilings", "GetPublicCompanies", "GetPublicCompaniesWithHeaders",
               "GetFilerWithHeaders"}
    /\ pc \in {"parse", "fetch", "loop", "call", "done"}
    /\ Len(err) <= 1
    /\ Len(stop) <= 1
    /\ u \in 1..(Len(urls) + 1)

-----------------------------------------------------------------------------
(* Vocabulary of the properties.                                            *)

InGetFilings == op = "GetFilings"
Returned == InGetFilings /\ pc = "done"
\* The directory page was fetched: the loop is running or has ended.
Traversing == InGetFilings /\ err = Nil /\ (pc = "loop" \/ (pc = "done" /\ Len(requests) >= 1))

N == Len(site.dir)
Upto(n) == [k \in 1..n |-> k]
Urls(fs) == [n \in 1..Len(fs) |-> fs[n].url]
InSeq(x, sq) == \E n \in 1..Len(sq) : sq[n] = x
Increasing(sq) == \A a, b \in 1..Len(sq) : a < b => sq[a] < sq[b]

\* The stoptime arguments that are not a date in the layout 2006-01-02.
MalformedStopTimes ==
    { <<"2", "0", "2", "3", "-", "0", "2", "-", "2", "9">>,
      <<"2", "0", "2", "3", "-", "2", "-", "1">> }

\* Entry e fetches, has an index link and builds.
Builds(e) == ~e.getErr /\ e.idx /\ ~e.buildErr
\* The filing of e passes the form-type filter of the call.
Matches(e) == formtype = "" \/ e.FormType = formtype
\* The filing of e is dated strictly before the cutoff of the call.
Old(e) == stop # Nil /\ e.EdgarTime < stop[1]
\* Entry e makes the traversal stop.
Stops(e) == Builds(e) /\ Matches(e) /\ Old(e)

\* The position of the first entry that stops the traversal, N + 1 if none.
StopPoint ==
    IF \E k \in 1..N : Stops(site.dir[k])
    THEN CHOOSE k \in 1..N : Stops(site.dir[k]) /\ \A j \in 1..(k - 1) : ~Stops(site.dir[j])
    ELSE N + 1

Min(a, b) == IF a < b THEN a ELSE b

-----------------------------------------------------------------------------
\* C1: with a well-formed stoptime, no form-type filter and a directory whose
\* entries all fetch and build with strictly decreasing timestamps, the call
\* returns no error and exactly the entries whose timestamp is not before the
\* cutoff (the one dated on the cutoff included), in page order, and it
\* fetches no sub-directory after the first one dated before the cutoff.
C1_DecreasingDirectoryCutoff ==
    ( /\ Returned
      /\ stoptime # <<>> /\ stoptime \notin MalformedStopTimes
      /\ formtype = ""
      /\ ~site.dirErr
      /\ \A k \in 1..N : Builds(site.dir[k])
      /\ \A j, k \in 1..N : j < k => site.dir[j].EdgarTime > site.dir[k].EdgarTime )
    => /\ err = Nil
       /\ stop = <<Parse(stoptime).t>>
       /\ LET kept == SelectSeq(Upto(N), LAMBDA k : site.dir[k].EdgarTime >= stop[1])
          IN  /\ Urls(filings) = kept
              /\ \A n \in 1..Len(filings) :
                    filings[n].EdgarTime = site.dir[kept[n]].EdgarTime
              /\ requests = <<0>> \o Upto(Min(Len(kept) + 1, N))

\* The example of the specification: dates 2023-03-01, 2023-02-01, 2023-01-01
\* and stoptime 2023-02-01 give the first two filings.
C1_Witness ==
    /\ Returned
    /\ stoptime = <<"2", "0", "2", "3", "-", "0", "2", "-", "0", "1">>
    /\ formtype = ""
    /\ N = 3
    /\ \A k \in 1..N : Builds(site.dir[k])
    /\ site.dir[1].EdgarTime = Date(2023, 3, 1)
    /\ site.dir[2].EdgarTime = Date(2023, 2, 1)
    /\ site.dir[3].EdgarTime = Date(2023, 1, 1)
    /\ Urls(filings) = <<1, 2>>
    /\ filings[2].EdgarTime = Date(2023, 2, 1)
    /\ requests = <<0, 1, 2, 3>>
    /\ err = Nil

\* C2 as stated: once the directory page was fetched, the call returns no
\* error and the filings of all entries that build and pass both filters, in
\* page order, for any directory.
C2_AllPassingEntriesReturned ==
    (Returned /\ ~site.dirErr /\ Len(requests) >= 1)
    => /\ err = Nil
       /\ Urls(filings)
            = SelectSeq(Upto(N), LAMBDA k : /\ Builds(site.dir[k])
                                            /\ Matches(site.dir[k])
                                            /\ ~Old(site.dir[k]))

\* C2 amended: once the directory page was fetched, the call returns no error
\* and the filings of the entries that build and pass the form-type filter
\* among those before the first entry that stops the traversal (all entries
\* when none stops it), in page order; entries that fail are passed over and
\* every entry up to the stopping one is fetched.
C2_FailuresTolerated ==
    (Returned /\ ~site.dirErr /\ Len(requests) >= 1)
    => /\ err = Nil
       /\ Urls(filings)
            = SelectSeq(Upto(StopPoint - 1), LAMBDA k : /\ Builds(site.dir[k])
                                                        /\ Matches(site.dir[k]))
       /\ requests = <<0>> \o Upto(Min(StopPoint, N))

\* One of three entries fails to fetch and the other two are returned.
C2_Witness ==
    /\ Returned
    /\ N = 3
    /\ site.dir[2].getErr
    /\ Urls(filings) = <<1, 3>>
    /\ err = Nil

\* C3: with a form-type filter every returned filing has exactly that form
\* type; the returned filings are in page order; without a filter every entry
\* that builds and is reached before the traversal stops is returned,
\* whatever its form type.
C3_FormTypeFilter ==
    (Returned /\ err = Nil)
    => /\ formtype # "" =>
            \A n \in 1..Len(filings) :
                /\ filings[n].FormType = formtype
                /\ site.dir[filings[n].url].FormType = formtype
       /\ Increasing(Urls(filings))
       /\ formtype = "" =>
            \A k \in 1..N :
                (Builds(site.dir[k]) /\ k < StopPoint) => InSeq(k, Urls(filings))

\* A directory 8-K, 10-K, 10-K filtered by 10-K returns the last two.
C3_Witness ==
    /\ Returned
    /\ formtype = "10-K"
    /\ N = 3
    /\ Builds(site.dir[1]) /\ site.dir[1].FormType = "8-K"
    /\ Urls(filings) = <<2, 3>>
    /\ filings[1].FormType = "10-K"

\* C4: the call returns an error exactly when the non-empty stoptime is
\* malformed or the fetch of the directory page fails; with an error nothing
\* was accumulated, and failures inside the loop or the cutoff stop never
\* give an error.
C4_ErrorIffPrecondition ==
    Returned
    => /\ err # Nil <=> ((stoptime # <<>> /\ stoptime \in MalformedStopTimes) \/ site.dirErr)
       /\ err # Nil => filings = <<>>

\* A call that meets a failing entry and then stops at the cutoff, with nil error.
C4_Witness ==
    /\ Returned
    /\ err = Nil
    /\ u <= N
    /\ \E k \in 1..(u - 1) : ~Builds(site.dir[k])
    /\ Len(filings) >= 1

\* C5: a company listing whose query parameters have no non-empty token (every
\* call of GetPublicCompanies among them) returns an error and no companies,
\* and issues no request.
C5_NoTokenNoRequest ==
    ( /\ pc = "done"
      /\ \/ op = "GetPublicCompanies"
         \/ /\ op = "GetPublicCompaniesWithHeaders"
            /\ \A p \in queryParameters : p[1] = "token" => p[2] = "" )
    => /\ err = <<"token">>
       /\ Len(requests) = 0
       /\ Len(result) = 0

\* A call with an empty token that has returned.
C5_Witness ==
    /\ op = "GetPublicCompaniesWithHeaders"
    /\ pc = "done"
    /\ <<"token", "">> \in queryParameters
    /\ err # Nil

\* C6 as stated: on a decoded feed an empty cik gives the CIK error, an empty
\* conformed-name gives the name error, and otherwise the Filer is returned
\* with the decoded fields and the caller's symbol.
C6_EachEmptyFieldItsError ==
    (op = "GetFilerWithHeaders" /\ pc = "done" /\ feed # Nil)
    => /\ feed[1].CIK = "" =>
            (err = <<"no cik found in response data">> /\ filer = Nil)
       /\ feed[1].Name = "" =>
            (err = <<"no name found in response data">> /\ filer = Nil)
       /\ (feed[1].CIK # "" /\ feed[1].Name # "") =>
            /\ err = Nil
            /\ filer = << [CIK |-> feed[1].CIK, Symbol |-> symbol, SIC |-> feed[1].SIC,
                           SICDescription |-> feed[1].SICDesc, Name |-> feed[1].Name] >>

\* C6 amended: on a decoded feed an empty cik gives the CIK error (also when
\* conformed-name is empty too), an empty conformed-name with a non-empty cik
\* gives the name error, and otherwise the Filer is returned with the decoded
\* fields and the caller's symbol; no Filer with an empty CIK or Name is
\* ever returned.
C6_FilerValidation ==
    /\ (op = "GetFilerWithHeaders" /\ pc = "done" /\ feed # Nil)
       => /\ feed[1].CIK = "" =>
               (err = <<"no cik found in response data">> /\ filer = Nil)
          /\ (feed[1].CIK # "" /\ feed[1].Name = "") =>
               (err = <<"no name found in response data">> /\ filer = Nil)
          /\ (feed[1].CIK # "" /\ feed[1].Name # "") =>
               /\ err = Nil
               /\ filer = << [CIK |-> feed[1].CIK, Symbol |-> symbol, SIC |-> feed[1].SIC,
                              SICDescription |-> feed[1].SICDesc, Name |-> feed[1].Name] >>
    /\ filer # Nil => (filer[1].CIK # "" /\ filer[1].Name # "")

\* A feed with a cik and an empty conformed-name is refused with the name error.
C6_Witness ==
    /\ op = "GetFilerWithHeaders" /\ pc = "done"
    /\ feed # Nil
    /\ feed[1].CIK = "0000320193" /\ feed[1].Name = ""
    /\ err = <<"no name found in response data">>
    /\ filer = Nil

\* C7 as stated: with a cutoff, the traversal never goes on past an entry that
\* builds and is dated strictly before the cutoff.
C7_StopsAtAnyOldFiling ==
    Traversing
    => \A k \in 1..(u - 1) : ~(Builds(site.dir[k]) /\ Old(site.dir[k]))

\* C7 amended: with a cutoff, the traversal stops at the first entry that
\* builds, passes the form-type filter and is dated strictly before the
\* cutoff: the loop never goes past it, its filing is not appended, no later
\* sub-directory is fetched, index-extracted or built, and what was
\* accumulated is returned with no error, whatever the order of the directory.
C7_CutoffStopsTraversal ==
    /\ Traversing => u <= StopPoint
    /\ (Returned /\ err = Nil)
       => /\ u = StopPoint
          /\ \A n \in 1..Len(filings) : filings[n].url < StopPoint
          /\ \A n \in 1..Len(requests) : requests[n] <= StopPoint
          /\ \A n \in 1..Len(extracted) : extracted[n] <= StopPoint
          /\ \A n \in 1..Len(built) : built[n] <= StopPoint

\* The traversal has stopped before a later entry that is not before the
\* cutoff, which is therefore missing from the result.
C7_Witness ==
    /\ Returned
    /\ err = Nil
    /\ u < N
    /\ Stops(site.dir[u])
    /\ \E k \in (u + 1)..N :
          /\ Builds(site.dir[k]) /\ Matches(site.dir[k]) /\ ~Old(site.dir[k])
          /\ ~InSeq(k, Urls(filings))
          /\ ~InSeq(k, requests)

\* C8: with a form-type filter and a cutoff, an entry whose form type does
\* not match is skipped whatever its date, and the traversal goes on past
\* it; the traversal stops only at the first entry that builds, matches the
\* form type and is dated strictly before the cutoff.
C8_FormTypeBeforeCutoff ==
    (Returned /\ err = Nil /\ formtype # "" /\ stop # Nil)
    => /\ u <= N =>
            /\ Builds(site.dir[u])
            /\ site.dir[u].FormType = formtype
            /\ site.dir[u].EdgarTime < stop[1]
            /\ \A j \in 1..(u - 1) :
                  ~( /\ Builds(site.dir[j])
                     /\ site.dir[j].FormType = formtype
                     /\ site.dir[j].EdgarTime < stop[1] )
       /\ \A k \in 1..N :
            ( /\ Builds(site.dir[k])
              /\ site.dir[k].FormType # formtype
              /\ site.dir[k].EdgarTime < stop[1]
              /\ \A j \in 1..k : ~Stops(site.dir[j]) )
            => (u > k /\ InSeq(k, built) /\ ~InSeq(k, Urls(filings)))

\* An 8-K dated before the cutoff is skipped and the 10-K after it returned.
C8_Witness ==
    /\ Returned
    /\ formtype = "10-K"
    /\ stop # Nil
    /\ N >= 2
    /\ Builds(site.dir[1]) /\ site.dir[1].FormType = "8-K"
    /\ site.dir[1].EdgarTime < stop[1]
    /\ InSeq(2, Urls(filings))

\* The state part of C9.
C9_Accumulated ==
    InGetFilings
    => /\ Increasing(Urls(filings))
       /\ \A n \in 1..Len(filings) :
            LET k == filings[n].url
            IN  /\ k \in 1..(u - 1)
                /\ InSeq(k, requests) /\ InSeq(k, extracted) /\ InSeq(k, built)
                /\ Builds(site.dir[k])
                /\ filings[n].FormType = site.dir[k].FormType
                /\ filings[n].EdgarTime = site.dir[k].EdgarTime
                /\ formtype # "" => filings[n].FormType = formtype
                /\ stop # Nil => ~(filings[n].EdgarTime < stop[1])

\* The step part of C9.
C9_Appends ==
    \/ filings' = filings
    \/ /\ Len(filings') = Len(filings) + 1
       /\ SubSeq(filings', 1, Len(filings)) = filings

\* C9: throughout the loop the accumulated filings are a subsequence, in page
\* order and with no repetition, of the sub-directories processed so far;
\* each was built successfully, matches the form-type filter when one is
\* given and is not dated before the cutoff when one is given; and filings
\* changes only by appending one filing at its end.
C9_LoopInvariant == [](C9_Accumulated) /\ [][C9_Appends]_vars

\* Two filings accumulated in the middle of a traversal, after a failure.
C9_Witness ==
    /\ InGetFilings /\ pc = "loop"
    /\ formtype # "" /\ stop # Nil
    /\ u = 4
    /\ ~Builds(site.dir[1])
    /\ Urls(filings) = <<2, 3>>

=============================================================================
